---------------------------- MODULE Spec2Model ----------------------------
(***************************************************************************)
(* State-machine model of the two React components in                      *)
(* src/frontend/src/components/Chatbot.tsx:                                *)
(*   - Chatbot  (lines 25-176): the chat widget,                           *)
(*   - HomePage (lines 217-510): the search-and-map landing page.          *)
(*                                                                         *)
(* Execution model: the browser's single UI thread.  One action is one     *)
(* task of the event loop: a DOM event handler run up to its first await,  *)
(* or the continuation of an await / a callback run up to the next await.  *)
(* React flushes the state updates of a task before the next task runs, so *)
(* each handler reads the state as it is when its event is delivered.      *)
(* Strings that the code trims are sequences of one-character strings.     *)
(***************************************************************************)
EXTENDS Integers, Sequences, FiniteSets, TLC

\* ------------------------------------------------------------------ bounds
MaxSends == 2        \* accepted chat sends per behaviour
MaxDownloads == 1    \* handleDownloadPdf calls per behaviour
MaxSearches == 2     \* search requests issued per behaviour

\* ----------------------------------------------------------------- strings
Chars == {"a", " "}

\* the texts typed into a field: empty, blank, and padded non-blank
Strings == {<<>>, <<" ">>, <<" ", "a">>}

IsSpace(c) == c = " "

RECURSIVE TrimStart(_)
TrimStart(s) == IF s # <<>> /\ IsSpace(Head(s)) THEN TrimStart(Tail(s)) ELSE s

RECURSIVE TrimEnd(_)
TrimEnd(s) ==
    IF s # <<>> /\ IsSpace(s[Len(s)]) THEN TrimEnd(SubSeq(s, 1, Len(s) - 1)) ELSE s

\* String.prototype.trim
Trim(s) == TrimEnd(TrimStart(s))

Undefined == "undefined"

Null == "null"

\* truthiness of a string-valued expression that may be null or undefined
Truthy(v) == v # Undefined /\ v # Null /\ v # ""

\* truthiness of a text (a sequence of characters): '' is falsy
TruthyText(s) == s # <<>>

RemoveAt(s, i) == SubSeq(s, 1, i - 1) \o SubSeq(s, i + 1, Len(s))

VARIABLES
    \* ---- Chatbot
    token,          \* useAuth().token
    messages,       \* useState<ChatMessage[]>
    input,          \* useState('')
    isLoading,      \* useState(false)
    sendCalls,      \* handleSendMessage invocations suspended at an await
    sendCount,      \* chat requests issued so far
    dlCalls,        \* handleDownloadPdf invocations suspended at an await
    dlCount,        \* handleDownloadPdf calls so far
    alerts,         \* texts shown by window.alert, in order
    objectUrls,     \* object URLs created and not yet revoked
    opened,         \* viewing contexts opened by window.open
    \* ---- HomePage
    allBusinesses,      \* useState<Business[]>([])
    filteredBusinesses, \* useState<Business[]>([])
    categories,         \* useState<Category[]>([])
    selectedCategory,   \* useState<string | null>(null)
    homeIsLoading,      \* HomePage's isLoading, useState(true)
    error,              \* useState<string | null>(null)
    searchQuery,        \* useState('')
    locations,          \* useState<BusinessLocation[]>([])
    selectedLocation,   \* useState<BusinessLocation | null>(null)
    isMapLoading,       \* useState(true)
    mapCenter,          \* useState(costaRicaCenter)
    mapZoom,            \* useState(7.5), in tenths
    google,             \* whether window.google is defined
    load,               \* fetchInitialData: where it is suspended
    geocodes,           \* the geocoding effect's promises, one per business
    searchCalls,        \* handleSearch invocations suspended at an await
    searchGeocodes,     \* geocode lookups of first results, callback pending
    searchCount,        \* search requests issued so far
    \* ---- both
    ev                  \* the task that ran last: [op, arg, ...]

chatVars == <<token, messages, input, isLoading, sendCalls, sendCount,
              dlCalls, dlCount, alerts, objectUrls, opened>>

homeVars == <<allBusinesses, filteredBusinesses, categories, selectedCategory,
              homeIsLoading, error, searchQuery, locations, selectedLocation,
              isMapLoading, mapCenter, mapZoom, google, load, geocodes,
              searchCalls, searchGeocodes, searchCount>>

vars == <<chatVars, homeVars, ev>>

Ev(op, arg) == [op |-> op, arg |-> arg]

\* =================================================================== Chatbot
Greeting == <<"Hola! Soy el asistente de ${businessName}. En que puedo ayudarte para agendar tu cita?">>

ServiceUnavailable == <<"El chatbot no esta disponible en este momento.">>

GenericError == <<"Lo siento, ocurrio un error.">>

MissingToken == <<"Error: No se encontro tu token de autenticacion.">>

DownloadFailed == <<"No se pudo descargar el PDF del comprobante.">>

\* messages of exceptions the platform raises (fetch rejects with a TypeError,
\* response.json() with a SyntaxError); <<>> is an exception without a message
ErrorMessages == {<<>>, <<"Failed to fetch">>}

\* messages of the exceptions of the document fetch
DownloadErrors == {<<"Failed to fetch">>}

Tokens == {Null, "", "jwt"}

\* payloads of a 2xx answer of POST /chatbot/chat: {response, action?, pdf_url?}
\* (a plain answer, and a booking confirmation with its document)
Replies ==
    { [response |-> <<"reply">>, action |-> Undefined, pdf_url |-> Undefined],
      [response |-> <<"booked">>, action |-> "BOOKING_SUCCESS", pdf_url |-> "/pdf"] }

Message(role, text, action, pdfUrl) ==
    [role |-> role, parts |-> <<text>>, action |-> action, pdfUrl |-> pdfUrl]

InitialMessages == <<Message("model", Greeting, Undefined, Undefined)>>

UserMessage(inp) == Message("user", inp, Undefined, Undefined)

ModelMessage(data) == Message("model", data.response, data.action, data.pdf_url)

\* mutation of ErrorText: the fallback text is forgotten
ErrorTextNoFallback(msg) == msg

ErrorText(msg) == IF TruthyText(msg) THEN msg ELSE GenericError

ErrorMessage(msg) == Message("model", ErrorText(msg), Undefined, Undefined)

\* mutation of AppendMessage: the new message overwrites the last one
AppendMessageOverLast(prev, m) == Append(SubSeq(prev, 1, Len(prev) - 1), m)

\* the functional updater prev => [...prev, m]
AppendMessage(prev, m) == Append(prev, m)

\* mutation of SendRejected: the pending check is forgotten
SendRejectedBlankOnly(inp, loading) == ~TruthyText(Trim(inp))

\* mutation of SendRejected: the input is tested without trimming
SendRejectedNoTrim(inp, loading) == ~TruthyText(inp) \/ loading

\* line 43: if (!input.trim() || isLoading) return;
SendRejected(inp, loading) == ~TruthyText(Trim(inp)) \/ loading

\* mutation of LoadingAfterSettle: the flag is cleared at the end of the try block
LoadingAfterSettleTryOnly(outcome) == outcome # "sendOk"

\* the finally block: setIsLoading(false) whatever the outcome
LoadingAfterSettle(outcome) == FALSE

InitChat ==
    /\ token = Null
    /\ messages = InitialMessages
    /\ input = <<>>
    /\ isLoading = FALSE
    /\ sendCalls = <<>>
    /\ sendCount = 0
    /\ dlCalls = <<>>
    /\ dlCount = 0
    /\ alerts = <<>>
    /\ objectUrls = 0
    /\ opened = 0

\* useAuth: the session provider replaces the credential
AuthChange(t) ==
    /\ UNCHANGED homeVars
    /\ t # token
    /\ token' = t
    /\ ev' = Ev("auth", t)
    /\ UNCHANGED <<messages, input, isLoading, sendCalls, sendCount,
                   dlCalls, dlCount, alerts, objectUrls, opened>>

\* onChange={(e) => setInput(e.target.value)}
SetInput(v) ==
    /\ UNCHANGED homeVars
    /\ input' = v
    /\ ev' = Ev("setInput", v)
    /\ UNCHANGED <<token, messages, isLoading, sendCalls, sendCount,
                   dlCalls, dlCount, alerts, objectUrls, opened>>

\* mutation of HistorySent: the history already holds the new user message
HistorySentWithNew(rendered, userMessage) == Append(rendered, userMessage)

\* line 54: history: messages, the list of the render the handler closes over
HistorySent(rendered, userMessage) == rendered

\* handleSendMessage up to the await of fetch
handleSendMessage ==
    /\ UNCHANGED homeVars
    /\ ev' = Ev("send", IF SendRejected(input, isLoading) THEN "rejected" ELSE "accepted")
    /\ IF SendRejected(input, isLoading)
       THEN UNCHANGED <<messages, input, isLoading, sendCalls, sendCount>>
       ELSE /\ sendCount < MaxSends
            /\ messages' = AppendMessage(messages, UserMessage(input))
            /\ input' = <<>>
            /\ isLoading' = TRUE
            /\ sendCalls' = Append(sendCalls,
                   [pc |-> "fetch",
                    history |-> HistorySent(messages, UserMessage(input)),
                    message |-> input])
            /\ sendCount' = sendCount + 1
    /\ UNCHANGED <<token, dlCalls, dlCount, alerts, objectUrls, opened>>

\* the catch block followed by the finally block
SendFailed(i, kind, msg) ==
    /\ messages' = AppendMessage(messages, ErrorMessage(msg))
    /\ isLoading' = LoadingAfterSettle(kind)
    /\ sendCalls' = RemoveAt(sendCalls, i)
    /\ ev' = Ev(kind, msg)

\* the fetch of call i settles: 2xx, another status, or a rejection
SendFetchSettled(i) ==
    /\ UNCHANGED homeVars
    /\ i \in DOMAIN sendCalls
    /\ sendCalls[i].pc = "fetch"
    /\ \/ /\ sendCalls' = [sendCalls EXCEPT ![i].pc = "json"]
          /\ ev' = Ev("sendResponseOk", <<>>)
          /\ UNCHANGED <<messages, isLoading>>
       \/ SendFailed(i, "sendHttpError", ServiceUnavailable)
       \/ \E msg \in ErrorMessages : SendFailed(i, "sendNetworkError", msg)
    /\ UNCHANGED <<token, input, sendCount, dlCalls, dlCount, alerts, objectUrls, opened>>

\* response.json() of call i settles: a payload, or a rejection
SendBodySettled(i) ==
    /\ UNCHANGED homeVars
    /\ i \in DOMAIN sendCalls
    /\ sendCalls[i].pc = "json"
    /\ \/ \E data \in Replies :
            /\ messages' = AppendMessage(messages, ModelMessage(data))
            /\ isLoading' = LoadingAfterSettle("sendOk")
            /\ sendCalls' = RemoveAt(sendCalls, i)
            /\ ev' = Ev("sendOk", <<>>)
       \/ \E msg \in ErrorMessages : SendFailed(i, "sendBodyError", msg)
    /\ UNCHANGED <<token, input, sendCount, dlCalls, dlCount, alerts, objectUrls, opened>>

\* mutation of DownloadRefused: only a null token is refused
DownloadRefusedNullOnly(t) == t = Null

\* line 72: if (!token) { alert(...); return; }
DownloadRefused(t) == ~Truthy(t)

\* handleDownloadPdf(msg.pdfUrl) from the "Ver PDF" button of message k
handleDownloadPdf(k) ==
    /\ UNCHANGED homeVars
    /\ k \in DOMAIN messages
    /\ messages[k].action = "BOOKING_SUCCESS"
    /\ Truthy(messages[k].pdfUrl)
    /\ dlCount < MaxDownloads
    /\ dlCount' = dlCount + 1
    /\ ev' = Ev("download", IF DownloadRefused(token) THEN "refused" ELSE "issued")
    /\ IF DownloadRefused(token)
       THEN /\ alerts' = Append(alerts, MissingToken)
            /\ UNCHANGED dlCalls
       ELSE /\ dlCalls' = Append(dlCalls, [pc |-> "fetch", url |-> messages[k].pdfUrl])
            /\ UNCHANGED alerts
    /\ UNCHANGED <<token, messages, input, isLoading, sendCalls, sendCount,
                   objectUrls, opened>>

\* the fetch of download j settles
DownloadFetchSettled(j) ==
    /\ UNCHANGED homeVars
    /\ j \in DOMAIN dlCalls
    /\ dlCalls[j].pc = "fetch"
    /\ \/ /\ dlCalls' = [dlCalls EXCEPT ![j].pc = "blob"]
          /\ ev' = Ev("downloadResponseOk", <<>>)
          /\ UNCHANGED alerts
       \/ /\ dlCalls' = RemoveAt(dlCalls, j)
          /\ alerts' = Append(alerts, DownloadFailed)
          /\ ev' = Ev("downloadHttpError", DownloadFailed)
       \/ \E msg \in DownloadErrors :
            /\ dlCalls' = RemoveAt(dlCalls, j)
            /\ alerts' = Append(alerts, msg)
            /\ ev' = Ev("downloadNetworkError", msg)
    /\ UNCHANGED <<token, messages, input, isLoading, sendCalls, sendCount,
                   dlCount, objectUrls, opened>>

\* response.blob() of download j settles
DownloadBlobSettled(j) ==
    /\ UNCHANGED homeVars
    /\ j \in DOMAIN dlCalls
    /\ dlCalls[j].pc = "blob"
    /\ \/ /\ dlCalls' = [dlCalls EXCEPT ![j].pc = "timer"]
          /\ objectUrls' = objectUrls + 1
          /\ opened' = opened + 1
          /\ ev' = Ev("downloadOpened", <<>>)
          /\ UNCHANGED alerts
       \/ \E msg \in DownloadErrors :
            /\ dlCalls' = RemoveAt(dlCalls, j)
            /\ alerts' = Append(alerts, msg)
            /\ ev' = Ev("downloadBodyError", msg)
            /\ UNCHANGED <<objectUrls, opened>>
    /\ UNCHANGED <<token, messages, input, isLoading, sendCalls, sendCount, dlCount>>

\* setTimeout(() => URL.revokeObjectURL(url), 3000)
RevokeTimer(j) ==
    /\ UNCHANGED homeVars
    /\ j \in DOMAIN dlCalls
    /\ dlCalls[j].pc = "timer"
    /\ dlCalls' = RemoveAt(dlCalls, j)
    /\ objectUrls' = objectUrls - 1
    /\ ev' = Ev("revoke", <<>>)
    /\ UNCHANGED <<token, messages, input, isLoading, sendCalls, sendCount,
                   dlCount, alerts, opened>>

ChatNext ==
    \/ \E t \in Tokens : AuthChange(t)
    \/ \E v \in Strings : SetInput(v)
    \/ handleSendMessage
    \/ \E i \in 1..MaxSends : SendFetchSettled(i)
    \/ \E i \in 1..MaxSends : SendBodySettled(i)
    \/ \E k \in 1..(2 * MaxSends + 1) : handleDownloadPdf(k)
    \/ \E j \in 1..MaxDownloads : DownloadFetchSettled(j)
    \/ \E j \in 1..MaxDownloads : DownloadBlobSettled(j)
    \/ \E j \in 1..MaxDownloads : RevokeTimer(j)

\* ================================================================== HomePage
\* coordinates are in microdegrees and zoom levels in tenths
costaRicaCenter == [lat |-> 9934739, lng |-> -84087502]

DefaultZoom == 75

SearchZoom == 150

Business(id, mongoId, cats, address) ==
    [id |-> id, _id |-> mongoId, categories |-> cats, address |-> address]

B1 == Business("b1", Undefined, {"X"}, "addr1")

B2 == Business("b2", Undefined, {"Y"}, "addr2")

\* a record that carries its key as _id only
B3 == Business(Undefined, "b3", {"X", "Y"}, "addr3")

\* answers of GET /businesses/
Catalogs == {<<>>, <<B1, B2>>, <<B3, B2>>}

\* answers of GET /categories/
CategoryLists == {<<[id |-> "c1", name |-> "X"], [id |-> "c2", name |-> "Y"]>>}

\* answers of POST /businesses/ai-search
SearchResults == {<<>>, <<B2>>, <<B3, B1>>}

BusinessesFailed == "No se pudieron cargar los negocios."

CategoriesFailed == "No se pudieron cargar las categorias."

SearchFailed == "La busqueda inteligente fallo."

\* messages of the exceptions fetch and response.json() raise
HomeErrorMessages == {"Failed to fetch"}

\* message of the TypeError of window.google.maps when window.google is undefined
GoogleMissing == "Cannot read properties of undefined (reading 'maps')"

\* what the geocoder makes of an address
GeocodeOf(address) ==
    CASE address = "addr1" -> [lat |-> 9900000, lng |-> -84000000]
      [] address = "addr2" -> [lat |-> 10000000, lng |-> -84200000]
      [] OTHER -> [lat |-> 9800000, lng |-> -83900000]

\* the (results, status) pairs the geocoder may call back with
GeocodeAnswers(address) ==
    { [status |-> "OK", results |-> <<GeocodeOf(address)>>],
      [status |-> "OK", results |-> <<>>],
      [status |-> "ZERO_RESULTS", results |-> <<>>] }

\* status === 'OK' && results?.[0]
GeocodeHit(answer) == answer.status = "OK" /\ answer.results # <<>>

BusinessLocation(point, business) ==
    [lat |-> point.lat, lng |-> point.lng, business |-> business]

\* b.id || b._id
BusinessId(b) == IF Truthy(b.id) THEN b.id ELSE b._id

\* mutation of FilterLocations: the _id fallback is forgotten
FilterLocationsIdOnly(visible, pins) ==
    LET businessIds == {visible[i].id : i \in DOMAIN visible}
    IN  SelectSeq(pins, LAMBDA loc :
            Truthy(loc.business.id) /\ loc.business.id \in businessIds)

\* the body of the useMemo of filteredLocations
FilterLocations(visible, pins) ==
    LET businessIds == {BusinessId(visible[i]) : i \in DOMAIN visible}
    IN  SelectSeq(pins, LAMBDA loc :
            Truthy(BusinessId(loc.business)) /\ BusinessId(loc.business) \in businessIds)

\* useMemo(..., [filteredBusinesses, locations])
filteredLocations == FilterLocations(filteredBusinesses, locations)

\* a nullable value is a sequence of at most one element: <<>> is null
None == <<>>

Some(v) == <<v>>

InitHome ==
    /\ allBusinesses = <<>>
    /\ filteredBusinesses = <<>>
    /\ categories = <<>>
    /\ selectedCategory = Null
    /\ homeIsLoading = TRUE
    /\ error = Null
    /\ searchQuery = <<>>
    /\ locations = <<>>
    /\ selectedLocation = None
    /\ isMapLoading = TRUE
    /\ mapCenter = costaRicaCenter
    /\ mapZoom = DefaultZoom
    /\ google = FALSE
    /\ load = [pc |-> "fetch", biz |-> "pending", cat |-> "pending", data |-> <<>>]
    /\ geocodes = <<>>
    /\ searchCalls = <<>>
    /\ searchGeocodes = <<>>
    /\ searchCount = 0

LoadDone == [pc |-> "done", biz |-> "done", cat |-> "done", data |-> <<>>]

\* the maps script finishes loading and defines window.google
GoogleScriptLoaded ==
    /\ ~google
    /\ google' = TRUE
    /\ ev' = Ev("google", <<>>)
    /\ UNCHANGED chatVars
    /\ UNCHANGED <<allBusinesses, filteredBusinesses, categories, selectedCategory,
                   homeIsLoading, error, searchQuery, locations, selectedLocation,
                   isMapLoading, mapCenter, mapZoom, load, geocodes,
                   searchCalls, searchGeocodes, searchCount>>

\* fetchInitialData: the catch block followed by the finally block
LoadFailed(kind, msg) ==
    /\ error' = msg
    /\ homeIsLoading' = FALSE
    /\ load' = LoadDone
    /\ ev' = Ev(kind, msg)
    /\ UNCHANGED <<allBusinesses, filteredBusinesses, categories, isMapLoading, geocodes>>

\* mutation of LoadJoined: the status of the categories response is not tested
LoadJoinedBusinessesOnly(biz, cat) ==
    IF biz = "bad" THEN LoadFailed("loadHttpError", BusinessesFailed)
    ELSE /\ load' = [load EXCEPT !.pc = "bizJson", !.biz = biz, !.cat = cat]
         /\ ev' = Ev("loadResponsesOk", <<>>)
         /\ UNCHANGED <<allBusinesses, filteredBusinesses, categories, homeIsLoading,
                        error, isMapLoading, geocodes>>

\* fetchInitialData after Promise.all fulfilled with the two responses
LoadJoined(biz, cat) ==
    IF biz = "bad" THEN LoadFailed("loadHttpError", BusinessesFailed)
    ELSE IF cat = "bad" THEN LoadFailed("loadHttpError", CategoriesFailed)
    ELSE /\ load' = [load EXCEPT !.pc = "bizJson", !.biz = biz, !.cat = cat]
         /\ ev' = Ev("loadResponsesOk", <<>>)
         /\ UNCHANGED <<allBusinesses, filteredBusinesses, categories, homeIsLoading,
                        error, isMapLoading, geocodes>>

\* one fetch of the Promise.all settles; which is "biz" or "cat"
LoadFetchSettled(which, outcome) ==
    /\ load.pc = "fetch"
    /\ load[which] = "pending"
    /\ IF outcome = "rejected"
       THEN \E msg \in HomeErrorMessages : LoadFailed("loadNetworkError", msg)
       ELSE LET other == IF which = "biz" THEN load.cat ELSE load.biz
            IN  IF other = "pending"
                THEN /\ load' = [load EXCEPT ![which] = outcome]
                     /\ ev' = Ev("loadResponse", which)
                     /\ UNCHANGED <<allBusinesses, filteredBusinesses, categories,
                                    homeIsLoading, error, isMapLoading, geocodes>>
                ELSE IF which = "biz" THEN LoadJoined(outcome, load.cat)
                     ELSE LoadJoined(load.biz, outcome)
    /\ UNCHANGED chatVars
    /\ UNCHANGED <<selectedCategory, searchQuery, locations, selectedLocation,
                   mapCenter, mapZoom, google, searchCalls, searchGeocodes, searchCount>>

\* await businessesResponse.json() settles
BusinessesBodySettled ==
    /\ load.pc = "bizJson"
    /\ \/ \E data \in Catalogs :
            /\ load' = [load EXCEPT !.pc = "catJson", !.data = data]
            /\ ev' = Ev("loadBusinessesRead", <<>>)
            /\ UNCHANGED <<allBusinesses, filteredBusinesses, categories,
                           homeIsLoading, error, isMapLoading, geocodes>>
       \/ \E msg \in HomeErrorMessages : LoadFailed("loadBodyError", msg)
    /\ UNCHANGED chatVars
    /\ UNCHANGED <<selectedCategory, searchQuery, locations, selectedLocation,
                   mapCenter, mapZoom, google, searchCalls, searchGeocodes, searchCount>>

\* line 262: if (allBusinesses.length > 0 && window.google)
GeocodingStarts(businesses, g) == Len(businesses) > 0 /\ g

\* the effect of [allBusinesses]: one geocode promise per business
GeocodingEffect(businesses) ==
    IF GeocodingStarts(businesses, google)
    THEN /\ isMapLoading' = TRUE
         /\ geocodes' = [i \in 1..Len(businesses) |->
                            [settled |-> FALSE, value |-> None]]
    ELSE UNCHANGED <<isMapLoading, geocodes>>

\* await categoriesResponse.json() settles; on success the three lists are
\* set, the finally block runs and the effect of [allBusinesses] follows
CategoriesBodySettled ==
    /\ load.pc = "catJson"
    /\ \/ \E cats \in CategoryLists :
            /\ allBusinesses' = load.data
            /\ filteredBusinesses' = load.data
            /\ categories' = cats
            /\ homeIsLoading' = FALSE
            /\ load' = LoadDone
            /\ GeocodingEffect(load.data)
            /\ ev' = Ev("loadOk", <<>>)
            /\ UNCHANGED error
       \/ \E msg \in HomeErrorMessages : LoadFailed("loadBodyError", msg)
    /\ UNCHANGED chatVars
    /\ UNCHANGED <<selectedCategory, searchQuery, locations, selectedLocation,
                   mapCenter, mapZoom, google, searchCalls, searchGeocodes, searchCount>>

AllSettled(promises) == \A i \in DOMAIN promises : promises[i].settled

RECURSIVE Flatten(_)
Flatten(ss) == IF ss = <<>> THEN <<>> ELSE Head(ss) \o Flatten(Tail(ss))

\* results.filter(r => r !== null), in the order of the businesses
Resolved(promises) == Flatten([i \in DOMAIN promises |-> promises[i].value])

\* the geocoder calls back for business i; when the last promise settles,
\* Promise.all(...).then publishes the pins
GeocodeCallback(i) ==
    /\ i \in DOMAIN geocodes
    /\ ~geocodes[i].settled
    /\ \E answer \in GeocodeAnswers(allBusinesses[i].address) :
         LET value == IF GeocodeHit(answer)
                      THEN Some(BusinessLocation(answer.results[1], allBusinesses[i]))
                      ELSE None
             now == [geocodes EXCEPT ![i] = [settled |-> TRUE, value |-> value]]
         IN  /\ ev' = [op |-> "geocoded", arg |-> answer.status,
                       results |-> answer.results, index |-> i]
             /\ IF AllSettled(now)
                THEN /\ locations' = Resolved(now)
                     /\ isMapLoading' = FALSE
                     /\ geocodes' = <<>>
                ELSE /\ geocodes' = now
                     /\ UNCHANGED <<locations, isMapLoading>>
    /\ UNCHANGED chatVars
    /\ UNCHANGED <<allBusinesses, filteredBusinesses, categories, selectedCategory,
                   homeIsLoading, error, searchQuery, selectedLocation, mapCenter,
                   mapZoom, google, load, searchCalls, searchGeocodes, searchCount>>

\* onChange={(e) => setSearchQuery(e.target.value)}
SetSearchQuery(v) ==
    /\ searchQuery' = v
    /\ ev' = Ev("setSearchQuery", v)
    /\ UNCHANGED chatVars
    /\ UNCHANGED <<allBusinesses, filteredBusinesses, categories, selectedCategory,
                   homeIsLoading, error, locations, selectedLocation, isMapLoading,
                   mapCenter, mapZoom, google, load, geocodes, searchCalls,
                   searchGeocodes, searchCount>>

\* mutation of NewCategory: the toggle is forgotten
NewCategoryNoToggle(selected, categoryName) == categoryName

\* line 290: selectedCategory === categoryName ? null : categoryName
NewCategory(selected, categoryName) ==
    IF selected = categoryName THEN Null ELSE categoryName

\* mutation of QueryAfterSelect: the query is left as typed
QueryAfterSelectKept(query) == query

\* line 292: setSearchQuery('')
QueryAfterSelect(query) == <<>>

\* b.categories.includes(name)
ByCategory(businesses, name) ==
    SelectSeq(businesses, LAMBDA b : name \in b.categories)

\* mutation of SelectCategoryResult: the visible list is narrowed further
SelectCategoryResultOfVisible(all, visible, newCategory) ==
    IF Truthy(newCategory) THEN ByCategory(visible, newCategory) ELSE all

\* lines 294-298: the list shown after a category click
SelectCategoryResult(all, visible, newCategory) ==
    IF Truthy(newCategory) THEN ByCategory(all, newCategory) ELSE all

CategoryNames == {categories[i].name : i \in DOMAIN categories}

\* the "Mostrar todos" button of the empty list is rendered
ShowAllRendered ==
    ~homeIsLoading /\ Len(filteredBusinesses) = 0 /\ Truthy(selectedCategory)

\* handleSelectCategory(categoryName), from a category card or, with null,
\* from the "Mostrar todos" button
handleSelectCategory(categoryName) ==
    /\ \/ categoryName \in CategoryNames
       \/ categoryName = Null /\ ShowAllRendered
    /\ LET newCategory == NewCategory(selectedCategory, categoryName)
       IN  /\ selectedCategory' = newCategory
           /\ searchQuery' = QueryAfterSelect(searchQuery)
           /\ filteredBusinesses' =
                  SelectCategoryResult(allBusinesses, filteredBusinesses, newCategory)
    /\ mapCenter' = costaRicaCenter
    /\ mapZoom' = DefaultZoom
    /\ ev' = [op |-> "selectCategory", arg |-> categoryName, prev |-> selectedCategory]
    /\ UNCHANGED chatVars
    /\ UNCHANGED <<allBusinesses, categories, homeIsLoading, error, locations,
                   selectedLocation, isMapLoading, google, load, geocodes,
                   searchCalls, searchGeocodes, searchCount>>

\* mutation of SearchIsBlank: the query is tested without trimming
SearchIsBlankNoTrim(query) == ~TruthyText(query)

\* line 306: if (!searchQuery.trim())
SearchIsBlank(query) == ~TruthyText(Trim(query))

\* handleSearch up to the await of fetch
handleSearch ==
    /\ selectedCategory' = Null
    /\ IF SearchIsBlank(searchQuery)
       THEN /\ filteredBusinesses' = allBusinesses
            /\ mapCenter' = costaRicaCenter
            /\ mapZoom' = DefaultZoom
            /\ ev' = Ev("search", "blank")
            /\ UNCHANGED <<homeIsLoading, error, searchCalls, searchCount>>
       ELSE /\ searchCount < MaxSearches
            /\ homeIsLoading' = TRUE
            /\ error' = Null
            /\ searchCalls' = Append(searchCalls, [pc |-> "fetch"])
            /\ searchCount' = searchCount + 1
            /\ ev' = Ev("search", "issued")
            /\ UNCHANGED <<filteredBusinesses, mapCenter, mapZoom>>
    /\ UNCHANGED chatVars
    /\ UNCHANGED <<allBusinesses, categories, searchQuery, locations, selectedLocation,
                   isMapLoading, google, load, geocodes, searchGeocodes>>

\* mutation of SearchThrew: the catch block does not set the error
SearchThrewSilent(i, kind, msg) ==
    /\ error' = error
    /\ homeIsLoading' = FALSE
    /\ searchCalls' = RemoveAt(searchCalls, i)
    /\ ev' = Ev(kind, msg)

\* handleSearch: the catch block followed by the finally block
SearchThrew(i, kind, msg) ==
    /\ error' = msg
    /\ homeIsLoading' = FALSE
    /\ searchCalls' = RemoveAt(searchCalls, i)
    /\ ev' = Ev(kind, msg)

\* the fetch of search i settles
SearchFetchSettled(i) ==
    /\ i \in DOMAIN searchCalls
    /\ searchCalls[i].pc = "fetch"
    /\ \/ /\ searchCalls' = [searchCalls EXCEPT ![i].pc = "json"]
          /\ ev' = Ev("searchResponseOk", <<>>)
          /\ UNCHANGED <<error, homeIsLoading>>
       \/ SearchThrew(i, "searchHttpError", SearchFailed)
       \/ \E msg \in HomeErrorMessages : SearchThrew(i, "searchNetworkError", msg)
    /\ UNCHANGED chatVars
    /\ UNCHANGED <<allBusinesses, filteredBusinesses, categories, selectedCategory,
                   searchQuery, locations, selectedLocation, isMapLoading, mapCenter,
                   mapZoom, google, load, geocodes, searchGeocodes, searchCount>>

\* mutation of ResultsShown: the results are added to the list already shown
ResultsShownAfterVisible(visible, searchResults) == visible \o searchResults

\* line 323: setFilteredBusinesses(searchResults)
ResultsShown(visible, searchResults) == searchResults

\* mutation of EmptyResultViewport: the viewport is left where it was
EmptyResultViewportKept(center, zoom) == [center |-> center, zoom |-> zoom]

\* lines 343-346: setMapCenter(costaRicaCenter); setMapZoom(7.5)
EmptyResultViewport(center, zoom) ==
    [center |-> costaRicaCenter, zoom |-> DefaultZoom]

\* response.json() of search i settles; with results the first one is
\* handed to the geocoder, and the finally block runs without waiting for it
SearchBodySettled(i) ==
    /\ i \in DOMAIN searchCalls
    /\ searchCalls[i].pc = "json"
    /\ \/ \E searchResults \in SearchResults :
            /\ filteredBusinesses' = ResultsShown(filteredBusinesses, searchResults)
            /\ homeIsLoading' = FALSE
            /\ searchCalls' = RemoveAt(searchCalls, i)
            /\ IF Len(searchResults) > 0
               THEN IF google
                    THEN /\ searchGeocodes' = Append(searchGeocodes, searchResults[1])
                         /\ ev' = [op |-> "searchOk", arg |-> "results",
                                   results |-> searchResults]
                         /\ UNCHANGED <<mapCenter, mapZoom, error>>
                    ELSE /\ error' = GoogleMissing
                         /\ ev' = Ev("searchGeocoderError", GoogleMissing)
                         /\ UNCHANGED <<mapCenter, mapZoom, searchGeocodes>>
               ELSE /\ mapCenter' = EmptyResultViewport(mapCenter, mapZoom).center
                    /\ mapZoom' = EmptyResultViewport(mapCenter, mapZoom).zoom
                    /\ ev' = [op |-> "searchOk", arg |-> "empty",
                              results |-> searchResults]
                    /\ UNCHANGED <<searchGeocodes, error>>
       \/ /\ \E msg \in HomeErrorMessages : SearchThrew(i, "searchBodyError", msg)
          /\ UNCHANGED <<filteredBusinesses, mapCenter, mapZoom, searchGeocodes>>
    /\ UNCHANGED chatVars
    /\ UNCHANGED <<allBusinesses, categories, selectedCategory, searchQuery, locations,
                   selectedLocation, isMapLoading, google, load, geocodes, searchCount>>

\* the geocoder calls back for the first result of a search
SearchGeocodeCallback(j) ==
    /\ j \in DOMAIN searchGeocodes
    /\ searchGeocodes' = RemoveAt(searchGeocodes, j)
    /\ LET firstResult == searchGeocodes[j]
       IN  \E answer \in GeocodeAnswers(firstResult.address) :
             /\ ev' = [op |-> "searchGeocoded", arg |-> answer.status,
                       results |-> answer.results, first |-> firstResult]
             /\ IF GeocodeHit(answer)
                THEN /\ mapCenter' = [lat |-> answer.results[1].lat,
                                      lng |-> answer.results[1].lng]
                     /\ mapZoom' = SearchZoom
                     /\ selectedLocation' =
                            Some(BusinessLocation(answer.results[1], firstResult))
                ELSE UNCHANGED <<mapCenter, mapZoom, selectedLocation>>
    /\ UNCHANGED chatVars
    /\ UNCHANGED <<allBusinesses, filteredBusinesses, categories, selectedCategory,
                   homeIsLoading, error, searchQuery, locations, isMapLoading,
                   google, load, geocodes, searchCalls, searchCount>>

\* <Marker onClick={() => setSelectedLocation(loc)} />, rendered with the map
MarkerClick(k) ==
    /\ ~isMapLoading
    /\ k \in DOMAIN filteredLocations
    /\ selectedLocation' = Some(filteredLocations[k])
    /\ ev' = Ev("markerClick", <<>>)
    /\ UNCHANGED chatVars
    /\ UNCHANGED <<allBusinesses, filteredBusinesses, categories, selectedCategory,
                   homeIsLoading, error, searchQuery, locations, isMapLoading,
                   mapCenter, mapZoom, google, load, geocodes, searchCalls,
                   searchGeocodes, searchCount>>

\* mutation of InfoWindowClose: closing the overlay also resets the viewport
InfoWindowCloseResetsViewport ==
    /\ ~isMapLoading
    /\ selectedLocation # None
    /\ selectedLocation' = None
    /\ mapCenter' = costaRicaCenter
    /\ mapZoom' = DefaultZoom
    /\ ev' = Ev("infoWindowClose", <<>>)
    /\ UNCHANGED chatVars
    /\ UNCHANGED <<allBusinesses, filteredBusinesses, categories, selectedCategory,
                   homeIsLoading, error, searchQuery, locations, isMapLoading,
                   google, load, geocodes, searchCalls, searchGeocodes, searchCount>>

\* <InfoWindow onCloseClick={() => setSelectedLocation(null)} />
InfoWindowClose ==
    /\ ~isMapLoading
    /\ selectedLocation # None
    /\ selectedLocation' = None
    /\ ev' = Ev("infoWindowClose", <<>>)
    /\ UNCHANGED chatVars
    /\ UNCHANGED <<allBusinesses, filteredBusinesses, categories, selectedCategory,
                   homeIsLoading, error, searchQuery, locations, isMapLoading,
                   mapCenter, mapZoom, google, load, geocodes, searchCalls,
                   searchGeocodes, searchCount>>

HomeNext ==
    \/ GoogleScriptLoaded
    \/ \E which \in {"biz", "cat"}, outcome \in {"ok", "bad", "rejected"} :
         LoadFetchSettled(which, outcome)
    \/ BusinessesBodySettled
    \/ CategoriesBodySettled
    \/ \E i \in DOMAIN geocodes : GeocodeCallback(i)
    \/ \E v \in Strings : SetSearchQuery(v)
    \/ \E name \in CategoryNames \cup {Null} : handleSelectCategory(name)
    \/ handleSearch
    \/ \E i \in 1..MaxSearches : SearchFetchSettled(i)
    \/ \E i \in 1..MaxSearches : SearchBodySettled(i)
    \/ \E j \in 1..MaxSearches : SearchGeocodeCallback(j)
    \/ \E k \in DOMAIN locations : MarkerClick(k)
    \/ InfoWindowClose

Init == InitChat /\ InitHome /\ ev = Ev("mount", <<>>)

ChatSpec == Init /\ [][ChatNext]_vars

HomeSpec == Init /\ [][HomeNext]_vars

\* the geocoder answers some pending lookup of the catalog
GeocodeCallbacks == \E i \in DOMAIN geocodes : GeocodeCallback(i)

\* HomePage with a geocoder that answers every lookup it was given
HomeFairSpec == Init /\ [][HomeNext]_vars /\ WF_vars(GeocodeCallbacks)

\* ============================================================ Chatbot claims
\* a text is blank when every character of it is white space
Blank(s) == \A i \in DOMAIN s : s[i] = " "

LastMessage == messages[Len(messages)]

SendFailureOps == {"sendHttpError", "sendNetworkError", "sendBodyError"}

SendSettleOps == SendFailureOps \cup {"sendOk"}

CountRole(r) == Cardinality({i \in DOMAIN messages : messages[i].role = r})

\* C1: at most one chat request is outstanding, the loading flag is set only
\* while a send is outstanding, and a send submitted while another is pending
\* is rejected and issues nothing.
C1_SingleOutstandingSend ==
    /\ [](Len(sendCalls) <= 1 /\ (isLoading => Len(sendCalls) = 1))
    /\ [][(ev'.op = "send" /\ sendCalls # <<>>)
            => (ev'.arg = "rejected" /\ sendCalls' = sendCalls)]_vars

\* a send was submitted with sendable text while a request was outstanding
C1_Witness ==
    /\ ev.op = "send" /\ ev.arg = "rejected"
    /\ isLoading /\ Len(sendCalls) = 1 /\ ~Blank(input)

\* C2: sendMessage with a blank input, or while a send is pending, changes
\* neither the message list, the input text nor the loading flag and issues
\* no request.
C2_RejectedSendIsNoOp ==
    [][(ev'.op = "send" /\ (Blank(input) \/ isLoading))
        => UNCHANGED <<messages, input, isLoading, sendCalls, sendCount>>]_vars

\* a send was submitted with a non-empty, white-space-only input and refused
C2_Witness ==
    /\ ev.op = "send" /\ ev.arg = "rejected"
    /\ input = <<" ">> /\ ~isLoading /\ sendCount = 0

\* C3: an accepted send appends exactly one user message at once, its
\* settling appends exactly one assistant message, and the message list
\* changes in no other way (it only grows at its end).
C3_AppendOnlyOnePerStep ==
    /\ [](/\ CountRole("user") = sendCount
          /\ CountRole("model") = 1 + sendCount - Len(sendCalls))
    /\ [][/\ \/ messages' = messages
             \/ /\ Len(messages') = Len(messages) + 1
                /\ SubSeq(messages', 1, Len(messages)) = messages
          /\ (ev'.op = "send" /\ ev'.arg = "accepted")
                => messages' = Append(messages,
                       [role |-> "user", parts |-> <<input>>,
                        action |-> Undefined, pdfUrl |-> Undefined])
          /\ ev'.op \in SendSettleOps
                => /\ Len(messages') = Len(messages) + 1
                   /\ messages'[Len(messages')].role = "model"
          /\ messages' # messages
                => \/ ev'.op = "send" /\ ev'.arg = "accepted"
                   \/ ev'.op \in SendSettleOps]_vars

\* two sends ran to completion, the second one answered by the backend
C3_Witness ==
    /\ Len(messages) = 5 /\ sendCalls = <<>> /\ ev.op = "sendOk"
    /\ messages[2].role = "user" /\ messages[3].role = "model"
    /\ messages[4].role = "user" /\ messages[5].role = "model"

\* C4: when an accepted send completes, by success, non-success status,
\* network error or a failure reading the body, the loading flag is cleared,
\* and it is never set while no send is outstanding.
C4_LoadingReleased ==
    /\ [](sendCalls = <<>> => ~isLoading)
    /\ [][ev'.op \in SendSettleOps => ~isLoading']_vars

\* a send ended in a failure while the response body was read
C4_Witness == ev.op = "sendBodyError" /\ ~isLoading /\ sendCalls = <<>>

\* C5, as stated: a failed send appends one assistant message without action
\* or document URL whose text is "service unavailable" after a non-success
\* status and the generic error text after any other exception.
C5_Original ==
    /\ ev.op \in SendFailureOps
         => /\ LastMessage.role = "model"
            /\ LastMessage.action = Undefined /\ LastMessage.pdfUrl = Undefined
    /\ ev.op = "sendHttpError" => LastMessage.parts = <<ServiceUnavailable>>
    /\ ev.op \in {"sendNetworkError", "sendBodyError"}
         => LastMessage.parts = <<GenericError>>

\* C5, amended: after any other exception the text is the exception's own
\* message when it has one, and the generic error text only when it has none.
C5_FailureMessage ==
    /\ ev.op \in SendFailureOps
         => /\ LastMessage.role = "model"
            /\ LastMessage.action = Undefined /\ LastMessage.pdfUrl = Undefined
            /\ Len(LastMessage.parts) = 1 /\ LastMessage.parts[1] # <<>>
    /\ ev.op = "sendHttpError" => LastMessage.parts = <<ServiceUnavailable>>
    /\ ev.op \in {"sendNetworkError", "sendBodyError"}
         => \/ ev.arg # <<>> /\ LastMessage.parts = <<ev.arg>>
            \/ ev.arg = <<>> /\ LastMessage.parts = <<GenericError>>

\* the fetch was rejected with a message of its own, which is what is shown
C5_Witness ==
    /\ ev.op = "sendNetworkError" /\ ev.arg = <<"Failed to fetch">>
    /\ LastMessage.parts = <<ev.arg>> /\ ~isLoading

\* C6: downloadDocument without a credential shows the missing-credential
\* alert and does nothing else: no request, no object URL, no window, and
\* the chat state is unchanged.
C6_DownloadWithoutCredential ==
    [][(ev'.op = "download" /\ token \in {Null, Undefined, ""})
        => /\ alerts' = Append(alerts, MissingToken)
           /\ UNCHANGED <<dlCalls, objectUrls, opened, messages, input,
                          isLoading, sendCalls, sendCount, token>>]_vars

\* the document button was pressed while the token was the empty string
C6_Witness ==
    /\ ev.op = "download" /\ ev.arg = "refused" /\ token = ""
    /\ alerts = <<MissingToken>> /\ dlCalls = <<>> /\ opened = 0

\* =========================================================== HomePage claims
\* the key of a business: its id, or its _id when it has no id
IdOf(b) == IF b.id # Undefined THEN b.id ELSE b._id

IdsOfPins(pins) == {IdOf(pins[k].business) : k \in DOMAIN pins}

IdsOfBusinesses(businesses) == {IdOf(businesses[i]) : i \in DOMAIN businesses}

\* C7: in every state the visible pins are pins of the pin set, and the
\* business ids of the visible pins are exactly the ids of the visible
\* businesses that are geocoded.
C7_VisiblePinsConsistent ==
    /\ \A k \in DOMAIN filteredLocations :
         \E j \in DOMAIN locations : locations[j] = filteredLocations[k]
    /\ IdsOfPins(filteredLocations)
         = IdsOfBusinesses(filteredBusinesses) \cap IdsOfPins(locations)

\* search results hide one of two pins and list a business without a pin
C7_Witness ==
    /\ Len(locations) = 2 /\ filteredBusinesses = <<B3, B1>>
    /\ Len(filteredLocations) = 1 /\ filteredLocations[1].business = B3

\* C8, as stated: a selected category and a non-empty query never coexist
\* (read in the claim's favour: a white-space-only text is no query).
C8_Original == ~(selectedCategory # Null /\ ~Blank(searchQuery))

\* C8, amended: selecting a category clears the query text and submitting a
\* search clears the selected category; a selected category together with a
\* non-empty query text arises only by typing into the search field.
C8_FilterSwitchClearsOther ==
    [][/\ ev'.op = "selectCategory" => searchQuery' = <<>>
       /\ ev'.op = "search" => selectedCategory' = Null
       /\ (/\ selectedCategory' # Null /\ searchQuery' # <<>>
           /\ ~(selectedCategory # Null /\ searchQuery # <<>>))
            => ev'.op = "setSearchQuery"]_vars

\* a category was selected after a search had been submitted, and the query
\* text is gone
C8_Witness ==
    /\ ev.op = "selectCategory" /\ selectedCategory = "X"
    /\ searchQuery = <<>> /\ searchCount > 0

\* C9: selecting the category that is already selected returns the filter to
\* ALL: no selected category, and the full catalog visible.
C9_SelectTwiceToggles ==
    [][(ev'.op = "selectCategory" /\ ev'.arg # Null /\ selectedCategory = ev'.arg)
        => (selectedCategory' = Null /\ filteredBusinesses' = allBusinesses)]_vars

\* category X was selected while it was the selected one
C9_Witness ==
    /\ ev.op = "selectCategory" /\ ev.arg = "X" /\ ev.prev = "X"
    /\ selectedCategory = Null
    /\ allBusinesses = <<B1, B2>> /\ filteredBusinesses = allBusinesses

\* C10: selecting a category other than the selected one makes it the
\* selected category, clears the query, and shows exactly the businesses of
\* the full catalog that have the category, in catalog order.
C10_SelectOtherCategory ==
    [][(ev'.op = "selectCategory" /\ ev'.arg # Null /\ selectedCategory # ev'.arg)
        => LET name == ev'.arg
           IN  /\ selectedCategory' = name
               /\ searchQuery' = <<>>
               /\ filteredBusinesses' =
                      SelectSeq(allBusinesses, LAMBDA b : name \in b.categories)]_vars

\* category Y was selected while X was selected and only X's business shown
C10_Witness ==
    /\ ev.op = "selectCategory" /\ ev.arg = "Y" /\ ev.prev = "X"
    /\ selectedCategory = "Y"
    /\ allBusinesses = <<B1, B2>> /\ filteredBusinesses = <<B2>>


\* C11: a search with an empty or white-space-only query issues no request,
\* clears the selected category, shows the full catalog and puts the map at
\* the default center and zoom; the loading and error flags are not touched.
C11_BlankSearchResets ==
    [][(ev'.op = "search" /\ Blank(searchQuery))
        => /\ selectedCategory' = Null
           /\ filteredBusinesses' = allBusinesses
           /\ mapCenter' = [lat |-> 9934739, lng |-> -84087502]
           /\ mapZoom' = 75
           /\ UNCHANGED <<homeIsLoading, error, searchCalls, searchCount,
                          searchGeocodes>>]_vars

\* a white-space-only query was submitted while an earlier error was shown
C11_Witness ==
    /\ ev.op = "search" /\ ev.arg = "blank" /\ searchQuery = <<" ">>
    /\ error # Null /\ searchCalls = <<>>
    /\ Len(allBusinesses) = 2 /\ filteredBusinesses = allBusinesses


SearchRequestFailureOps == {"searchHttpError", "searchNetworkError"}

\* C13, as stated: a search whose request fails sets the error and clears
\* the loading flag, and from its submission to its failure the search leaves
\* the visible list, the active filter, the viewport and the selected pin as
\* they were before it was submitted.
C13_Original ==
    [][/\ ev'.op \in SearchRequestFailureOps
            => /\ error' = ev'.arg /\ ~homeIsLoading'
               /\ UNCHANGED <<filteredBusinesses, selectedCategory, mapCenter,
                              mapZoom, selectedLocation>>
       /\ (ev'.op = "search" /\ ~Blank(searchQuery))
            => UNCHANGED <<filteredBusinesses, selectedCategory, mapCenter,
                           mapZoom, selectedLocation>>]_vars

\* C13, amended: the failure sets the error, clears the loading flag and
\* changes nothing else; the submission before it changes neither the visible
\* list, the query text, the viewport nor the selected pin, but it clears the
\* selected category, which the failure does not restore.
C13_SearchFailureKeepsList ==
    [][/\ ev'.op \in SearchRequestFailureOps
            => /\ error' = ev'.arg /\ error' # Null /\ ~homeIsLoading'
               /\ UNCHANGED <<filteredBusinesses, selectedCategory, searchQuery,
                              mapCenter, mapZoom, selectedLocation>>
       /\ (ev'.op = "search" /\ ~Blank(searchQuery))
            => /\ selectedCategory' = Null
               /\ UNCHANGED <<filteredBusinesses, searchQuery, mapCenter,
                              mapZoom, selectedLocation>>]_vars

\* the request failed with a non-success status while the list of an
\* earlier category selection is still shown and no category is selected
C13_Witness ==
    /\ ev.op = "searchHttpError" /\ error = SearchFailed /\ ~homeIsLoading
    /\ selectedCategory = Null /\ searchCalls = <<>>
    /\ allBusinesses = <<B1, B2>> /\ filteredBusinesses = <<B1>>


LoadFailureOps == {"loadHttpError", "loadNetworkError", "loadBodyError"}

\* C14: the initial load reads the two bodies only when both requests
\* answered with a success status; a failed load sets the error, stops the
\* loading indicator and leaves the catalog, the visible list and the category
\* list as they were; the catalog and the category list are set only by the
\* load that succeeded in both requests, together with the visible list.
C14_BothOrError ==
    [][/\ load'.pc \in {"bizJson", "catJson"}
            => load'.biz = "ok" /\ load'.cat = "ok"
       /\ (load.pc = "fetch" /\ load'.pc # "fetch" /\ "bad" \in {load.biz, load.cat})
            => ev'.op \in LoadFailureOps
       /\ ev'.op \in LoadFailureOps
            => /\ error' = ev'.arg /\ error' # Null /\ ~homeIsLoading'
               /\ UNCHANGED <<allBusinesses, filteredBusinesses, categories>>
       /\ (allBusinesses' # allBusinesses \/ categories' # categories)
            => ev'.op = "loadOk"
       /\ ev'.op = "loadOk"
            => /\ load.biz = "ok" /\ load.cat = "ok"
               /\ allBusinesses' = load.data
               /\ filteredBusinesses' = load.data
               /\ categories' # <<>>
               /\ ~homeIsLoading' /\ error' = error]_vars

\* the categories request answered with a failure status after the
\* businesses request had succeeded: error shown, nothing populated
C14_Witness ==
    /\ ev.op = "loadHttpError" /\ ev.arg = CategoriesFailed
    /\ error = CategoriesFailed /\ ~homeIsLoading
    /\ allBusinesses = <<>> /\ filteredBusinesses = <<>> /\ categories = <<>>


\* the lookups of the batch that answered with a location, once the lookup
\* of business i has answered hit
Succeeded(i, hit) ==
    {k \in DOMAIN geocodes \ {i} : geocodes[k].value # None}
        \cup (IF hit THEN {i} ELSE {})

OthersSettled(i) == \A k \in DOMAIN geocodes \ {i} : geocodes[k].settled

\* C15, as stated: when the catalog with N businesses is set, N lookups are
\* issued; the pins are published and the map-loading flag cleared only by
\* the lookup that settles last, whatever the order; the published pins are
\* one for each business whose lookup answered with a location and none for
\* the others, and a failed lookup leaves the other lookups pending and the
\* error as it was.
C15_Original ==
    [][/\ ev'.op = "loadOk"
            => /\ Len(geocodes') = Len(allBusinesses')
               /\ \A k \in DOMAIN geocodes' : ~geocodes'[k].settled
       /\ (locations' # locations \/ (isMapLoading /\ ~isMapLoading'))
            => ev'.op = "geocoded" /\ OthersSettled(ev'.index)
       /\ ev'.op = "geocoded"
            => LET i == ev'.index
                   hit == ev'.arg = "OK" /\ ev'.results # <<>>
                   won == Succeeded(i, hit)
               IN  /\ error' = error
                   /\ IF OthersSettled(i)
                      THEN /\ ~isMapLoading'
                           /\ Len(locations') = Cardinality(won)
                           /\ \A k \in won : \E p \in DOMAIN locations' :
                                locations'[p].business = allBusinesses[k]
                           /\ hit => \E p \in DOMAIN locations' :
                                locations'[p] =
                                    [lat |-> ev'.results[1].lat,
                                     lng |-> ev'.results[1].lng,
                                     business |-> allBusinesses[i]]
                      ELSE /\ UNCHANGED <<locations, isMapLoading>>
                           /\ \A k \in DOMAIN geocodes \ {i} :
                                geocodes'[k] = geocodes[k]]_vars

\* a catalog of two businesses was set while the maps script was missing:
\* the script has loaded since, no lookup is pending, no pin is published
\* and the map is still shown as loading
C15_Witness ==
    /\ ev.op = "google" /\ google /\ load.pc = "done"
    /\ Len(allBusinesses) = 2 /\ geocodes = <<>> /\ locations = <<>>
    /\ isMapLoading


\* C16: a category click (selecting or toggling off), the submission of a
\* blank query and the arrival of an empty result set each leave the map at
\* the default center with the default zoom.
C16_ResetViewport ==
    [][(\/ ev'.op = "selectCategory"
        \/ (ev'.op = "search" /\ Blank(searchQuery))
        \/ (ev'.op = "searchOk" /\ ev'.results = <<>>))
        => /\ mapCenter' = [lat |-> 9934739, lng |-> -84087502]
           /\ mapZoom' = 75]_vars

\* a second search returned nothing after the first one had centered the
\* map on its first result: the viewport is back at the default
C16_Witness ==
    /\ ev.op = "searchOk" /\ ev.results = <<>> /\ filteredBusinesses = <<>>
    /\ searchCount = 2 /\ searchCalls = <<>> /\ searchGeocodes = <<>>
    /\ selectedLocation # None /\ selectedLocation[1].business = B2
    /\ [lat |-> selectedLocation[1].lat, lng |-> selectedLocation[1].lng] # mapCenter
    /\ mapZoom = 75


\* C17: closing the pin detail overlay sets the selected pin to none and
\* leaves the selected category, the query, the visible list, the catalog,
\* the pins, the viewport and every other field of the page as they were.
C17_CloseOnlyClearsSelection ==
    [][ev'.op = "infoWindowClose"
        => /\ selectedLocation # <<>> /\ selectedLocation' = <<>>
           /\ UNCHANGED <<selectedCategory, searchQuery, filteredBusinesses,
                          allBusinesses, locations, mapCenter, mapZoom,
                          categories, homeIsLoading, error, isMapLoading>>]_vars

\* the overlay opened by a search on its first result was closed: the map
\* is still zoomed on that result and the results are still listed
C17_Witness ==
    /\ ev.op = "infoWindowClose" /\ selectedLocation = <<>>
    /\ mapZoom = 150 /\ filteredBusinesses = <<B3, B1>>
    /\ Len(locations) = 2 /\ searchQuery = <<" ", "a">>


\* C18, as stated: while the initial load or any search request is still
\* outstanding, the page loading indicator is on.
C18_Original ==
    (load.pc # "done" \/ searchCalls # <<>>) => homeIsLoading

\* one of two concurrent searches delivered its results and turned the
\* indicator off while the other request is still awaited
C18_Witness ==
    /\ ev.op = "searchOk" /\ ~homeIsLoading
    /\ Len(searchCalls) = 1 /\ searchCalls[1].pc = "fetch"
    /\ load.pc = "done"


\* C19, as stated, for the callback that comes right after the reset: when a
\* category click or a blank search has just reset the viewport, the geocode
\* callback of a search submitted before it changes neither the center, the
\* zoom nor the selected pin.
C19_Original ==
    [][((ev.op = "selectCategory" \/ (ev.op = "search" /\ ev.arg = "blank"))
         /\ ev'.op = "searchGeocoded")
        => UNCHANGED <<mapCenter, mapZoom, selectedLocation>>]_vars

\* category X is selected and its list is shown, yet the map is zoomed on
\* a business of the search made before, whose overlay is open
C19_Witness ==
    /\ ev.op = "searchGeocoded" /\ ev.first = B2
    /\ selectedCategory = "X" /\ filteredBusinesses = <<B1>>
    /\ mapZoom = 150 /\ mapCenter # [lat |-> 9934739, lng |-> -84087502]
    /\ selectedLocation # <<>> /\ selectedLocation[1].business = B2


RequestsSettled == load.pc = "done" /\ searchCalls = <<>>

\* C20, as stated, for a category as the most recent filter action: once
\* every request has settled, a selected category C is shown with the
\* businesses of the catalog that belong to C.
C20_Original ==
    (RequestsSettled /\ selectedCategory # Null)
        => filteredBusinesses =
               SelectSeq(allBusinesses, LAMBDA b : selectedCategory \in b.categories)

\* the results of a search submitted before category X was selected arrived
\* after the selection: X is selected and a business outside X is listed
C20_Witness ==
    /\ RequestsSettled /\ ev.op = "searchOk"
    /\ selectedCategory = "X" /\ allBusinesses = <<B1, B2>>
    /\ filteredBusinesses = <<B2>>


\* ============================================================ invariants
\* C21: the message list starts with the greeting of the assistant and its
\* roles alternate assistant, user, assistant, ...; the last message is a
\* user message exactly when the loading flag is set, which is exactly when
\* a send is outstanding; the history of the outstanding request is the list
\* without its last message, the user message that the request carries.
C21_ConversationShape ==
    /\ Len(messages) >= 1
    /\ messages[1].role = "model" /\ messages[1].parts = <<Greeting>>
    /\ \A k \in DOMAIN messages :
         messages[k].role = (IF k % 2 = 1 THEN "model" ELSE "user")
    /\ (messages[Len(messages)].role = "user") <=> isLoading
    /\ isLoading <=> sendCalls # <<>>
    /\ \A i \in DOMAIN sendCalls :
         /\ sendCalls[i].history = SubSeq(messages, 1, Len(messages) - 1)
         /\ messages[Len(messages)].parts = <<sendCalls[i].message>>

\* the second message of the user was just sent: the request carries the
\* greeting, the first message and its answer, and not the new message
C21_Witness ==
    /\ ev.op = "send" /\ ev.arg = "accepted" /\ isLoading
    /\ Len(messages) = 4 /\ messages[4].role = "user"
    /\ Len(sendCalls) = 1 /\ Len(sendCalls[1].history) = 3
    /\ sendCalls[1].history[3].role = "model"


\* C22, as stated, for a page on which no search was submitted: in every
\* state the selected pin is none or the pin of a business of the visible
\* list.
C22_Original ==
    searchCount = 0
        => \/ selectedLocation = <<>>
           \/ IdOf(selectedLocation[1].business)
                  \in IdsOfBusinesses(filteredBusinesses)

\* without any search, the pin of a business of category Y was selected on
\* the map and category X was then chosen: the overlay of that business is
\* still open though the list shows category X only
C22_Witness ==
    /\ ev.op = "selectCategory" /\ selectedCategory = "X" /\ searchCount = 0
    /\ allBusinesses = <<B1, B2>> /\ filteredBusinesses = <<B1>>
    /\ selectedLocation # <<>> /\ selectedLocation[1].business = B2
    /\ ~isMapLoading


\* ============================================================== liveness
\* C23, as stated: with a geocoder that answers every lookup, once the
\* initial load has completed, with any catalog or with a failure, the
\* map-loading flag eventually becomes false.
C23_Original == (load.pc = "done") ~> ~isMapLoading

\* the initial load failed, no lookup was issued or is pending, and the map
\* is still replaced by the loading indicator
C23_Witness ==
    /\ ev.op \in LoadFailureOps /\ load.pc = "done" /\ error # Null
    /\ allBusinesses = <<>> /\ geocodes = <<>> /\ locations = <<>>
    /\ isMapLoading /\ ~homeIsLoading

=============================================================================
